---- MODULE Spec2Model ----
(***************************************************************************)
(* PageSpeedMonitor (src/scripts/generate-index.js, lines 307-653): one    *)
(* process samples every URL with Lighthouse, averages the samples, saves  *)
(* the snapshots to baseline/ or latest/ and, in normal mode, renders one  *)
(* report per URL from the snapshot, the stored baseline and their delta.  *)
(*                                                                         *)
(* Strings are sequences of one-character strings.  A file's text is a     *)
(* record: [json |-> v] is text that JSON.parse turns into v, Garbage is   *)
(* text JSON.parse rejects.  A directory is a function from file names to  *)
(* file texts.  JavaScript's null is NULL; a number that may be NaN is     *)
(* Num(n) or NaN.                                                          *)
(***************************************************************************)
EXTENDS Integers, Sequences, FiniteSets, TLC

VARIABLES
    argv,           \* process.argv.slice(2) of the running process
    urlsFile,       \* text of urls.json
    baselineDir,    \* baseline/ : file name -> text
    latestDir,      \* latest/   : file name -> text
    reportsDir,     \* reports/  : file name -> rendered report
    clock,          \* the wall clock new Date() reads
    pc,             \* where run() is
    exitCode,       \* the exit code of the process: 0 unless process.exit(1) ran
    updateBaseline, \* run(): const updateBaseline
    urls,           \* run(): let urls
    results,        \* run(): const results
    urlIdx,         \* run(): position of `url` in `urls`
    samples,        \* runMultipleLighthouse(): const results
    runNo,          \* runMultipleLighthouse(): let i
    resIdx,         \* saveResults() / generateReports(): position of `result` in `results`
    invocations,    \* history: every Scorer invocation: its URL, the categories it
                    \* printed and what runLighthouse returned
    writes,         \* history: every fs.writeFile of a snapshot or report, and whether it threw
    rendered,       \* history: every (current, baseline, delta) handed to the renderer
    dirs0,          \* history: baseline/ and latest/ as the process found them
    prev,           \* history: what the previous process did
    procNo,         \* how many processes have been started
    active          \* how many `npx lighthouse` child processes are running

vars == <<argv, urlsFile, baselineDir, latestDir, reportsDir, clock, pc,
          exitCode, updateBaseline, urls, results, urlIdx, samples, runNo,
          resIdx, invocations, writes, rendered, dirs0, prev, procNo, active>>

-----------------------------------------------------------------------------
(* JavaScript values *)

NULL == [null |-> TRUE]
NaN == [nan |-> TRUE]
Num(n) == [num |-> n]

\* !v for null and objects: null is falsy, objects are truthy
Falsy(v) == v = NULL

\* a.name - b.name: a number when both objects have the (numeric) property,
\* NaN when either is undefined
PropMinus(a, b, name) ==
    IF name \in DOMAIN a /\ name \in DOMAIN b THEN Num(a[name] - b[name]) ELSE NaN

\* Math.floor in place of Math.round
MathFloorDiv(n, d) == n \div d

\* Math.round(n / d) for integers n >= 0, d > 0: floor(n/d + 1/2)
MathRoundDiv(n, d) == (2 * n + d) \div (2 * d)

Cats == {"performance", "accessibility", "bestPractices", "seo"}

-----------------------------------------------------------------------------
(* Strings *)

Alnum == {"a", "b", "c", "d", "e", "f", "g", "h", "i", "j", "k", "l", "m",
          "n", "o", "p", "q", "r", "s", "t", "u", "v", "w", "x", "y", "z",
          "A", "B", "C", "D", "E", "F", "G", "H", "I", "J", "K", "L", "M",
          "N", "O", "P", "Q", "R", "S", "T", "U", "V", "W", "X", "Y", "Z",
          "0", "1", "2", "3", "4", "5", "6", "7", "8", "9"}

HttpScheme == <<"h", "t", "t", "p", ":", "/", "/">>
HttpsScheme == <<"h", "t", "t", "p", "s", ":", "/", "/">>
DotJson == <<".", "j", "s", "o", "n">>
DotHtml == <<".", "h", "t", "m", "l">>

MatchesAt(s, i, pat) ==
    /\ i + Len(pat) - 1 <= Len(s)
    /\ SubSeq(s, i, i + Len(pat) - 1) = pat

startsWith(s, prefix) == MatchesAt(s, 1, prefix)

\* s.replace(/https?:\/\//, ""): the first match only, wherever it is
StripScheme(s) ==
    LET hits == {i \in 1..Len(s) :
                    MatchesAt(s, i, HttpScheme) \/ MatchesAt(s, i, HttpsScheme)}
    IN  IF hits = {} THEN s
        ELSE LET i == CHOOSE k \in hits : \A m \in hits : k <= m
                 n == IF MatchesAt(s, i, HttpsScheme) THEN Len(HttpsScheme)
                      ELSE Len(HttpScheme)
             IN  SubSeq(s, 1, i - 1) \o SubSeq(s, i + n, Len(s))

\* s.replace(/[^a-zA-Z0-9]/g, "-")
Dashed(s) == [i \in 1..Len(s) |-> IF s[i] \in Alnum THEN s[i] ELSE "-"]

urlToFilename(url) == Dashed(StripScheme(url)) \o DotJson

\* urlToFilename(url).replace(".json", ".html"): the first ".json" of the name
ReportName(url) ==
    LET f == urlToFilename(url)
        hits == {i \in 1..Len(f) : MatchesAt(f, i, DotJson)}
        i == CHOOSE k \in hits : \A m \in hits : k <= m
    IN  SubSeq(f, 1, i - 1) \o DotHtml \o SubSeq(f, i + Len(DotJson), Len(f))

-----------------------------------------------------------------------------
(* Files *)

Garbage == [garbage |-> TRUE]
JSONstringify(v) == [json |-> v]
JSONparses(text) == "json" \in DOMAIN text
JSONparse(text) == text.json

WriteFile(dir, name, text) ==
    [n \in DOMAIN dir \cup {name} |-> IF n = name THEN text ELSE dir[n]]

\* await fs.writeFile(filepath, text): the file is written; or the call throws
\* before the file is opened (no permission, no directory) and the directory
\* is as it was; or it throws once the file was opened and truncated (full
\* disk, file size limit) and the file is left empty, text JSON.parse rejects
fsWriteFile(dir, name, text) ==
    { [dir |-> WriteFile(dir, name, text), threw |-> FALSE],
      [dir |-> dir, threw |-> TRUE],
      [dir |-> WriteFile(dir, name, Garbage), threw |-> TRUE] }

\* v is a JSON array (its indices are 1..n), not null or another object
IsArray(v) ==
    \A k \in DOMAIN v : ToString(k) \in {ToString(i) : i \in 1..Cardinality(DOMAIN v)}

ReadFails(dir, name) == name \notin DOMAIN dir

-----------------------------------------------------------------------------
(* Inputs *)

Runs == 3           \* runMultipleLighthouse(url, runs = 3)
MaxUrls == 2        \* longest urls.json list explored

UrlA == <<"h", "t", "t", "p", "s", ":", "/", "/", "a">>
UrlAHttp == <<"h", "t", "t", "p", ":", "/", "/", "a">>
UrlAB == <<"h", "t", "t", "p", "s", ":", "/", "/", "a", "/", "b">>
UrlPool == {UrlA, UrlAHttp, UrlAB}

UpdateBaselineFlag ==
    <<"-", "-", "u", "p", "d", "a", "t", "e", "-", "b", "a", "s", "e", "l", "i", "n", "e">>
UrlFlag == <<"-", "-", "u", "r", "l">>

ArgvPool ==
    { <<>>, <<UpdateBaselineFlag>>,
      <<UrlFlag, UrlAB>>, <<UpdateBaselineFlag, UrlFlag, UrlA>>,
      <<UrlFlag \o <<"=">> \o UrlA>>,
      <<UrlFlag \o <<"=">> \o UrlA, UpdateBaselineFlag>> }

\* lists of distinct URLs
UrlLists(maxLen) ==
    {l \in UNION {[1..n -> UrlPool] : n \in 0..maxLen} :
        \A i, j \in DOMAIN l : i # j => l[i] # l[j]}

-----------------------------------------------------------------------------
(* The Scorer: `npx lighthouse <url> --output=json`.  An invocation fails   *)
(* (the process errors), prints text that is no JSON, prints JSON without   *)
(* categories or with null for them, or prints its report: per category a   *)
(* score in thousandths, Num(n), or null.  The report a site yields depends *)
(* on the URL's position and the run: the second run's report has no seo    *)
(* category, the first site's best-practices score is 0 in its first run    *)
(* and null in its third.                                                   *)

ExecError == [error |-> TRUE]

LighthouseReport(u, i) ==
    LET perf == 1000 - 96 * i - 130 * (u - 1)
        acc == 700 + 5 * i * u
        seo == 500 + 100 * u
        common == [performance |-> [score |-> Num(perf)],
                   accessibility |-> [score |-> Num(acc)]]
        bpScore == IF u = 1 /\ i = 1 THEN Num(0)
                   ELSE IF u = 1 /\ i = 3 THEN NULL
                   ELSE Num(1000)
        bp == [c \in {"best-practices"} |-> [score |-> bpScore]]
    IN  IF i = 2
        THEN [categories |-> common @@ bp]
        ELSE [categories |-> common @@ bp @@ [seo |-> [score |-> Num(seo)]]]

ScorerOutputs(u, i) ==
    { ExecError, Garbage, JSONstringify([lighthouseVersion |-> 1]),
      JSONstringify([categories |-> NULL]),
      JSONstringify(LighthouseReport(u, i)) }

\* the scores n/1000 ending in 5 whose double, times 100, is a double just
\* below k + 1/2 (0.145 * 100 is 14.499999999999998): Math.round rounds them
\* down.  For every other n in 0..1000 the product rounds as n/10 does.
BelowHalf == {145, 285, 565, 575}

\* Math.round(score * 100) for the score n/1000
RoundTimes100(n) == IF n \in BelowHalf THEN n \div 10 ELSE MathRoundDiv(n, 10)

\* Math.round((categories[id]?.score || 0) * 100): a missing category, a
\* missing or null score and the score 0 all give 0
CategoryScore(categories, id) ==
    IF /\ id \in DOMAIN categories
       /\ "score" \in DOMAIN categories[id]
       /\ "num" \in DOMAIN categories[id].score
    THEN RoundTimes100(categories[id].score.num)
    ELSE 0

\* a runLighthouse that rejects a report without a number for every category
runLighthouseStrict(stdout, now) ==
    IF "error" \in DOMAIN stdout \/ ~JSONparses(stdout) THEN NULL
    ELSE LET result == JSONparse(stdout)
             ids == {"performance", "accessibility", "best-practices", "seo"}
         IN  IF "categories" \notin DOMAIN result \/ Falsy(result.categories)
             THEN NULL
             ELSE IF \E id \in ids : \/ id \notin DOMAIN result.categories
                                     \/ "num" \notin DOMAIN result.categories[id].score
                                     \/ result.categories[id].score.num = 0
                  THEN NULL
                  ELSE [performance |-> CategoryScore(result.categories, "performance"),
                        accessibility |-> CategoryScore(result.categories, "accessibility"),
                        bestPractices |-> CategoryScore(result.categories, "best-practices"),
                        seo |-> CategoryScore(result.categories, "seo"),
                        timestamp |-> now]

\* runLighthouse(url): the sample, or NULL when anything throws
runLighthouse(stdout, now) ==
    IF "error" \in DOMAIN stdout \/ ~JSONparses(stdout) THEN NULL
    ELSE LET result == JSONparse(stdout)
         IN  IF "categories" \notin DOMAIN result \/ Falsy(result.categories)
             THEN NULL
             ELSE [performance |-> CategoryScore(result.categories, "performance"),
                   accessibility |-> CategoryScore(result.categories, "accessibility"),
                   bestPractices |-> CategoryScore(result.categories, "best-practices"),
                   seo |-> CategoryScore(result.categories, "seo"),
                   timestamp |-> now]

-----------------------------------------------------------------------------
(* Averaging and comparison *)

RECURSIVE SumOf(_, _)
\* rs.reduce((sum, r) => sum + r[cat], 0)
SumOf(rs, cat) ==
    IF rs = <<>> THEN 0 ELSE SumOf(SubSeq(rs, 1, Len(rs) - 1), cat) + rs[Len(rs)][cat]

\* dividing by the number of runs asked for, not by the number that succeeded
AverageOverRuns(rs, cat) == MathRoundDiv(SumOf(rs, cat), Runs)

\* Math.round(rs.reduce(...) / rs.length)
Average(rs, cat) == MathRoundDiv(SumOf(rs, cat), Len(rs))

\* the `averaged` object of runMultipleLighthouse
Averaged(url, rs, now) ==
    [url |-> url,
     runs |-> Len(rs),
     performance |-> Average(rs, "performance"),
     accessibility |-> Average(rs, "accessibility"),
     bestPractices |-> Average(rs, "bestPractices"),
     seo |-> Average(rs, "seo"),
     timestamp |-> now,
     rawResults |-> rs]

\* a delta that never goes below zero
calculateDeltaClamped(current, baseline) ==
    IF Falsy(baseline) THEN NULL
    ELSE [c \in Cats |->
            IF c \in DOMAIN current /\ c \in DOMAIN baseline /\ current[c] < baseline[c]
            THEN Num(0) ELSE PropMinus(current, baseline, c)]

calculateDelta(current, baseline) ==
    IF Falsy(baseline) THEN NULL
    ELSE [c \in Cats |-> PropMinus(current, baseline, c)]

\* loadBaseline(url): the parsed file, or NULL when reading or parsing throws
loadBaseline(dir, url) ==
    LET filename == urlToFilename(url)
    IN  IF ReadFails(dir, filename) \/ ~JSONparses(dir[filename]) THEN NULL
        ELSE JSONparse(dir[filename])

\* generateHtmlReport: the page shows the current scores, the baseline's when
\* there is one, and the deltas ("N/A" without a delta)
generateHtmlReport(current, baseline, delta) ==
    [current |-> current,
     baseline |-> IF Falsy(baseline) THEN NULL ELSE baseline,
     delta |-> delta]

-----------------------------------------------------------------------------
(* What the directories hold before the first process *)

OldSample ==
    [performance |-> 85, accessibility |-> 70, bestPractices |-> 70, seo |-> 70,
     timestamp |-> 0]

OldSnapshot(url) == Averaged(url, <<OldSample>>, 0)

FileNames == {urlToFilename(u) : u \in UrlPool}
UrlOfFile(name) == CHOOSE u \in UrlPool : urlToFilename(u) = name

EmptyDir == [n \in {} |-> Garbage]
SnapshotDir == [n \in FileNames |-> JSONstringify(OldSnapshot(UrlOfFile(n)))]
GarbageDir == [n \in FileNames |-> Garbage]
\* every file is "{}": valid JSON that is no snapshot
ObjectDir == [n \in FileNames |-> JSONstringify(<<>>)]

InitialDirs ==
    { [baseline |-> EmptyDir, latest |-> EmptyDir],
      [baseline |-> SnapshotDir, latest |-> SnapshotDir],
      [baseline |-> GarbageDir, latest |-> SnapshotDir],
      [baseline |-> ObjectDir, latest |-> EmptyDir] }

NoPrev == [ran |-> FALSE]

-----------------------------------------------------------------------------
(* The process *)

ProcessStart(args, dirs) ==
    /\ argv = args
    /\ baselineDir = dirs.baseline
    /\ latestDir = dirs.latest
    /\ dirs0 = dirs
    /\ reportsDir = EmptyDir
    /\ clock = 1
    /\ pc = "start"
    /\ exitCode = 0
    /\ updateBaseline = FALSE
    /\ urls = <<>>
    /\ results = <<>>
    /\ urlIdx = 0
    /\ samples = <<>>
    /\ runNo = 0
    /\ resIdx = 0
    /\ invocations = <<>>
    /\ writes = <<>>
    /\ rendered = <<>>
    /\ prev = NoPrev
    /\ procNo = 1
    /\ active = 0

\* JSON in urls.json that is no list
NoLists == {NULL, [a |-> 1]}

Init ==
    /\ \/ urlsFile \in {Garbage} \cup {JSONstringify(l) : l \in UrlLists(MaxUrls)}
       \/ urlsFile \in {JSONstringify(v) : v \in NoLists}
    /\ \E args \in ArgvPool, dirs \in InitialDirs : ProcessStart(args, dirs)

\* process.exit(code), also through main's catch of what run() throws
Exit(code) ==
    /\ pc' = "exited"
    /\ exitCode' = code

\* run(), lines 606-617 and the head of the loop at 621
ParseArgs ==
    /\ pc = "start"
    /\ LET hits == {i \in 1..Len(argv) : startsWith(argv[i], UrlFlag)}
           singleUrlIndex == IF hits = {} THEN -1
                             ELSE CHOOSE k \in hits : \A m \in hits : k <= m
           override == /\ singleUrlIndex # -1
                       /\ singleUrlIndex + 1 <= Len(argv)
                       /\ argv[singleUrlIndex + 1] # <<>>
           \* loadUrls returns what JSON.parse gives; of null urls.length
           \* throws, over an object that is no array the loop throws
           loaded == override \/ (JSONparses(urlsFile) /\ IsArray(JSONparse(urlsFile)))
           list == IF override THEN <<argv[singleUrlIndex + 1]>>
                   ELSE IF loaded THEN JSONparse(urlsFile) ELSE <<>>
       IN  /\ updateBaseline' = (\E i \in 1..Len(argv) : argv[i] = UpdateBaselineFlag)
           /\ urls' = list
           /\ IF ~loaded THEN Exit(1) /\ UNCHANGED <<urlIdx, runNo>>
              ELSE IF list = <<>>
                   THEN pc' = "collected" /\ UNCHANGED <<exitCode, urlIdx, runNo>>
                   ELSE /\ pc' = "lighthouse"
                        /\ urlIdx' = 1
                        /\ runNo' = 1
                        /\ UNCHANGED exitCode
    /\ UNCHANGED <<argv, urlsFile, baselineDir, latestDir, reportsDir, clock,
                   results, samples, resIdx, invocations, writes, rendered, dirs0,
                   prev, procNo, active>>

\* the loop of runMultipleLighthouse goes on after run i
MoreRunsUntilSuccess(i) == i < Runs /\ samples = <<>>

\* for (let i = 1; i <= runs; i++): another run follows run i
MoreRuns(i) == i < Runs

\* runLighthouse, line 345: the child process is started and awaited
ExecLighthouse ==
    /\ pc = "lighthouse"
    /\ active' = active + 1
    /\ pc' = "exec"
    /\ UNCHANGED <<argv, urlsFile, baselineDir, latestDir, reportsDir, clock,
                   exitCode, updateBaseline, urls, results, urlIdx, samples, runNo,
                   resIdx, invocations, writes, rendered, dirs0, prev, procNo>>

\* the categories object of the Scorer's output, NULL when the process erred,
\* the output is no JSON or the JSON has no categories
CategoriesOf(stdout) ==
    IF "error" \notin DOMAIN stdout /\ JSONparses(stdout)
       /\ "categories" \in DOMAIN JSONparse(stdout)
    THEN JSONparse(stdout).categories
    ELSE NULL

\* the child process has ended: the rest of runLighthouse, lines 350-371, and
\* of the iteration of the loop of runMultipleLighthouse, lines 380-384
RunLighthouse ==
    /\ pc = "exec"
    /\ active' = active - 1
    /\ \E stdout \in ScorerOutputs(urlIdx, runNo) :
          LET result == runLighthouse(stdout, clock)
          IN  /\ samples' = IF result # NULL THEN Append(samples, result) ELSE samples
              /\ clock' = IF result # NULL THEN clock + 1 ELSE clock
              /\ invocations' = Append(invocations,
                                        [url |-> urls[urlIdx],
                                         categories |-> CategoriesOf(stdout),
                                         result |-> result])
    /\ pc' = IF MoreRuns(runNo) THEN "delay" ELSE "aggregate"
    /\ UNCHANGED <<argv, urlsFile, baselineDir, latestDir, reportsDir,
                   exitCode, updateBaseline, urls, results, urlIdx, runNo, resIdx,
                   writes, rendered, dirs0, prev, procNo>>

\* the pause between two runs, lines 386-388
Delay ==
    /\ pc = "delay"
    /\ runNo' = runNo + 1
    /\ pc' = "lighthouse"
    /\ UNCHANGED <<argv, urlsFile, baselineDir, latestDir, reportsDir, clock,
                   exitCode, updateBaseline, urls, results, urlIdx, samples, resIdx,
                   invocations, writes, rendered, dirs0, prev, procNo, active>>

\* runMultipleLighthouse's result: NULL when every run failed, else the average
runMultipleLighthouse(url, rs, now) ==
    IF Len(rs) = 0 THEN NULL ELSE Averaged(url, rs, now)

\* the tail of runMultipleLighthouse, lines 391-419, and run(), lines 621-626
Aggregate ==
    /\ pc = "aggregate"
    /\ LET result == runMultipleLighthouse(urls[urlIdx], samples, clock)
       IN  /\ results' = IF result # NULL THEN Append(results, result) ELSE results
           /\ clock' = IF result # NULL THEN clock + 1 ELSE clock
    /\ IF urlIdx < Len(urls)
       THEN /\ urlIdx' = urlIdx + 1
            /\ runNo' = 1
            /\ samples' = <<>>
            /\ pc' = "lighthouse"
       ELSE /\ pc' = "collected"
            /\ UNCHANGED <<urlIdx, runNo, samples>>
    /\ UNCHANGED <<argv, urlsFile, baselineDir, latestDir, reportsDir,
                   exitCode, updateBaseline, urls, resIdx, invocations, writes,
                   rendered, dirs0, prev, procNo, active>>

\* run(), lines 628-631
CheckResults ==
    /\ pc = "collected"
    /\ IF Len(results) = 0
       THEN Exit(1) /\ UNCHANGED resIdx
       ELSE pc' = "save" /\ resIdx' = 1 /\ UNCHANGED exitCode
    /\ UNCHANGED <<argv, urlsFile, baselineDir, latestDir, reportsDir, clock,
                   updateBaseline, urls, results, urlIdx, samples, runNo, invocations,
                   writes, rendered, dirs0, prev, procNo, active>>

\* the wrong directory: latest/ for a baseline, baseline/ otherwise
saveResultsSwapped(dirs, result, isBaseline) ==
    LET filename == urlToFilename(result.url)
        text == JSONstringify(result)
    IN  IF isBaseline
        THEN {[dirs |-> [dirs EXCEPT !.latest = o.dir], threw |-> o.threw] :
                 o \in fsWriteFile(dirs.latest, filename, text)}
        ELSE {[dirs |-> [dirs EXCEPT !.baseline = o.dir], threw |-> o.threw] :
                 o \in fsWriteFile(dirs.baseline, filename, text)}

\* saveResults(results, isBaseline), one result: what writing it can leave in
\* baseline/ and latest/, and whether the write threw
saveResults(dirs, result, isBaseline) ==
    LET filename == urlToFilename(result.url)
        text == JSONstringify(result)
    IN  IF isBaseline
        THEN {[dirs |-> [dirs EXCEPT !.baseline = o.dir], threw |-> o.threw] :
                 o \in fsWriteFile(dirs.baseline, filename, text)}
        ELSE {[dirs |-> [dirs EXCEPT !.latest = o.dir], threw |-> o.threw] :
                 o \in fsWriteFile(dirs.latest, filename, text)}

\* one iteration of the loop of saveResults, lines 425-432; fs.writeFile may
\* throw, with the file untouched or emptied, which ends run() in main's catch.  Lines 634-642 follow the last one.
SaveResult ==
    /\ pc = "save"
    /\ \E o \in saveResults([baseline |-> baselineDir, latest |-> latestDir],
                             results[resIdx], updateBaseline) :
          /\ writes' = Append(writes, [file |-> "snapshot", url |-> results[resIdx].url,
                                       threw |-> o.threw])
          /\ baselineDir' = o.dirs.baseline
          /\ latestDir' = o.dirs.latest
          /\ IF ~o.threw
             THEN IF resIdx < Len(results)
                  THEN resIdx' = resIdx + 1 /\ UNCHANGED <<pc, exitCode>>
                  ELSE IF updateBaseline
                       THEN Exit(0) /\ UNCHANGED resIdx
                       ELSE pc' = "report" /\ resIdx' = 1 /\ UNCHANGED exitCode
             ELSE Exit(1) /\ UNCHANGED resIdx
    /\ UNCHANGED <<argv, urlsFile, reportsDir, clock, updateBaseline, urls,
                   results, urlIdx, samples, runNo, invocations, rendered,
                   dirs0, prev, procNo, active>>

\* one iteration of the loop of generateReports, lines 592-602; the report is
\* rendered, then written, and fs.writeFile may throw
GenerateReport ==
    /\ pc = "report"
    /\ LET result == results[resIdx]
           baseline == loadBaseline(baselineDir, result.url)
           delta == calculateDelta(result, baseline)
           html == generateHtmlReport(result, baseline, delta)
       IN  /\ rendered' = Append(rendered, html)
           /\ \E o \in fsWriteFile(reportsDir, ReportName(result.url), html) :
                 /\ writes' = Append(writes, [file |-> "report", url |-> result.url,
                                              threw |-> o.threw])
                 /\ reportsDir' = o.dir
                 /\ IF ~o.threw
                    THEN IF resIdx < Len(results)
                         THEN resIdx' = resIdx + 1 /\ UNCHANGED <<pc, exitCode>>
                         ELSE Exit(0) /\ UNCHANGED resIdx
                    ELSE Exit(1) /\ UNCHANGED resIdx
    /\ UNCHANGED <<argv, urlsFile, baselineDir, latestDir, clock,
                   updateBaseline, urls, results, urlIdx, samples, runNo, invocations,
                   dirs0, prev, procNo, active>>

Next ==
    \/ ParseArgs
    \/ ExecLighthouse
    \/ RunLighthouse
    \/ Delay
    \/ Aggregate
    \/ CheckResults
    \/ SaveResult
    \/ GenerateReport

Spec == Init /\ [][Next]_vars

-----------------------------------------------------------------------------
(* One process after another on the same directories *)

SeqArgvPool == {<<>>, <<UpdateBaselineFlag>>}
SeqUrlLists == {<<UrlA>>, <<UrlA, UrlAHttp>>, <<UrlAB, UrlA>>}

\* the next `node scripts/run.js ...`: the files stay
SecondProcess ==
    /\ pc = "exited"
    /\ procNo = 1
    /\ procNo' = procNo + 1
    /\ argv' \in SeqArgvPool
    /\ prev' = [ran |-> TRUE, updateBaseline |-> updateBaseline, urls |-> urls,
                invocations |-> invocations, writes |-> writes, results |-> results, exitCode |-> exitCode]
    /\ dirs0' = [baseline |-> baselineDir, latest |-> latestDir]
    /\ pc' = "start"
    /\ exitCode' = 0
    /\ updateBaseline' = FALSE
    /\ urls' = <<>>
    /\ results' = <<>>
    /\ urlIdx' = 0
    /\ samples' = <<>>
    /\ runNo' = 0
    /\ resIdx' = 0
    /\ invocations' = <<>>
    /\ writes' = <<>>
    /\ rendered' = <<>>
    /\ UNCHANGED <<urlsFile, baselineDir, latestDir, reportsDir, clock, active>>

InitSeq ==
    /\ urlsFile \in {JSONstringify(l) : l \in SeqUrlLists}
    /\ \E args \in SeqArgvPool :
          ProcessStart(args, [baseline |-> EmptyDir, latest |-> EmptyDir])

NextSeq == Next \/ SecondProcess

SpecSeq == InitSeq /\ [][NextSeq]_vars

-----------------------------------------------------------------------------
(* One process on empty directories, for any list of URLs in urls.json: what *)
(* the Sampler does depends on the list and on the Scorer only.              *)

InitSampler ==
    /\ urlsFile \in {JSONstringify(l) : l \in UrlLists(MaxUrls)}
    /\ \E args \in SeqArgvPool :
          ProcessStart(args, [baseline |-> EmptyDir, latest |-> EmptyDir])

SpecSampler == InitSampler /\ [][Next]_vars

-----------------------------------------------------------------------------
(* Averaging and comparison on their own: samples of any scores are pushed, *)
(* averaged as runMultipleLighthouse does and compared with any baseline.   *)

PureScores == {0, 1, 2, 33, 34, 49, 50, 51, 66, 98, 99, 100}

PureSampleOf(p, now) ==
    [performance |-> p, accessibility |-> 100 - p, bestPractices |-> 70,
     seo |-> (p * p) % 101, timestamp |-> now]

PureBaselines == {NULL} \cup {Averaged(UrlA, <<PureSampleOf(p, 0)>>, 0) : p \in PureScores}

InitPure ==
    /\ urlsFile = JSONstringify(<<UrlA>>)
    /\ ProcessStart(<<>>, [baseline |-> EmptyDir, latest |-> EmptyDir])

PureSample ==
    /\ pc = "start"
    /\ Len(samples) < Runs
    /\ results = <<>>
    /\ \E p \in PureScores : samples' = Append(samples, PureSampleOf(p, clock))
    /\ clock' = clock + 1
    /\ UNCHANGED <<argv, urlsFile, baselineDir, latestDir, reportsDir, pc,
                   exitCode, updateBaseline, urls, results, urlIdx, runNo, resIdx,
                   invocations, writes, rendered, dirs0, prev, procNo, active>>

PureAggregate ==
    /\ pc = "start"
    /\ results = <<>>
    /\ runMultipleLighthouse(UrlA, samples, clock) # NULL
    /\ results' = <<runMultipleLighthouse(UrlA, samples, clock)>>
    /\ UNCHANGED <<argv, urlsFile, baselineDir, latestDir, reportsDir, clock,
                   pc, exitCode, updateBaseline, urls, urlIdx, samples, runNo,
                   resIdx, invocations, writes, rendered, dirs0, prev, procNo, active>>

PureCompare ==
    /\ pc = "start"
    /\ results # <<>>
    /\ rendered = <<>>
    /\ \E baseline \in PureBaselines :
          rendered' = <<generateHtmlReport(results[1], baseline,
                                           calculateDelta(results[1], baseline))>>
    /\ UNCHANGED <<argv, urlsFile, baselineDir, latestDir, reportsDir, clock,
                   pc, exitCode, updateBaseline, urls, results, urlIdx, samples,
                   runNo, resIdx, invocations, writes, dirs0, prev, procNo, active>>

NextPure == PureSample \/ PureAggregate \/ PureCompare

SpecPure == InitPure /\ [][NextPure]_vars

-----------------------------------------------------------------------------
(* Properties *)

RECURSIVE Total(_, _)
Total(rs, cat) == IF rs = <<>> THEN 0 ELSE rs[1][cat] + Total(Tail(rs), cat)

Smallest(rs, cat) == CHOOSE v \in {rs[i][cat] : i \in DOMAIN rs} :
                        \A i \in DOMAIN rs : v <= rs[i][cat]
Largest(rs, cat) == CHOOSE v \in {rs[i][cat] : i \in DOMAIN rs} :
                        \A i \in DOMAIN rs : v >= rs[i][cat]

\* v is the mean of rs's cat scores rounded to the nearest integer, halves up:
\* v - 1/2 <= Total/n < v + 1/2
IsRoundedMean(v, rs, cat) ==
    /\ 2 * Len(rs) * v - Len(rs) <= 2 * Total(rs, cat)
    /\ 2 * Total(rs, cat) < 2 * Len(rs) * v + Len(rs)

\* C1: every category score of a snapshot built from a non-empty list of samples
\* is the mean of that category over those samples, rounded to the nearest
\* integer with halves up, and lies between their minimum and maximum.
C1_AverageIsRoundedMean ==
    \A k \in DOMAIN results : \A cat \in Cats :
        /\ results[k].rawResults = samples
        /\ IsRoundedMean(results[k][cat], samples, cat)
        /\ Smallest(samples, cat) <= results[k][cat]
        /\ results[k][cat] <= Largest(samples, cat)

\* two samples whose mean ends in one half (49 and 50: 49.5 becomes 50), and
\* three whose mean ends in a third
C1_Witness ==
    /\ results # <<>>
    /\ \/ /\ Len(samples) = 2
          /\ samples[1].performance = 49
          /\ samples[2].performance = 50
          /\ results[1].performance = 50
       \/ /\ Len(samples) = 3
          /\ samples[1].performance = 0
          /\ samples[2].performance = 0
          /\ samples[3].performance = 100
          /\ results[1].performance = 33

\* C2: the delta is null without a baseline and otherwise, per category, exactly
\* current minus baseline, unclamped.
C2_DeltaIsDifference ==
    \A k \in DOMAIN rendered :
        LET h == rendered[k]
        IN  IF h.baseline = NULL THEN h.delta = NULL
            ELSE /\ h.delta # NULL
                 /\ \A cat \in Cats :
                       h.delta[cat] = Num(h.current[cat] - h.baseline[cat])

\* one comparison with a delta of -100, one of +100 and one of 0
C2_Witness ==
    /\ rendered # <<>>
    /\ rendered[1].delta # NULL
    /\ rendered[1].delta.performance = Num(-100)
    /\ rendered[1].delta.accessibility = Num(100)
    /\ rendered[1].delta.bestPractices = Num(0)

\* a comparison without a baseline
C2_WitnessNoBaseline ==
    /\ rendered # <<>>
    /\ rendered[1].baseline = NULL
    /\ rendered[1].delta = NULL

-----------------------------------------------------------------------------
(* The pipeline *)

NoFile == [absent |-> TRUE]
FileOf(dir, name) == IF name \in DOMAIN dir THEN dir[name] ELSE NoFile

Range(seq) == {seq[i] : i \in DOMAIN seq}

RECURSIVE SuccessesOf(_, _)
\* the samples the invocations for url returned, in the order they completed
SuccessesOf(invs, url) ==
    IF invs = <<>> THEN <<>>
    ELSE LET rest == SuccessesOf(Tail(invs), url)
         IN  IF Head(invs).url = url /\ Head(invs).result # NULL
             THEN <<Head(invs).result>> \o rest
             ELSE rest

AttemptsOf(invs, url) == Cardinality({i \in DOMAIN invs : invs[i].url = url})

\* sampling of urls[j] is over
Sampled(j) ==
    /\ j \in DOMAIN urls
    /\ \/ j < urlIdx
       \/ j = urlIdx /\ pc \in {"collected", "save", "report", "exited"}

BaselineMode == \E i \in DOMAIN argv : argv[i] = UpdateBaselineFlag

\* the directory the mode selects
SlotDir == IF BaselineMode THEN baselineDir ELSE latestDir

\* C3: when some but not all runs for a URL fail, the URL still gets a snapshot;
\* its count is the number of runs that succeeded, its raw samples are the
\* successful ones in completion order, its averages are over them only.
C3_PartialSuccessIsAveraged ==
    /\ \A k \in DOMAIN results :
          \A ok \in {SuccessesOf(invocations, results[k].url)} :
              /\ results[k].runs = Len(ok)
              /\ 1 <= Len(ok) /\ Len(ok) <= Runs
              /\ results[k].rawResults = ok
              /\ \A cat \in Cats : IsRoundedMean(results[k][cat], ok, cat)
    /\ \A j \in DOMAIN urls :
          Sampled(j) /\ SuccessesOf(invocations, urls[j]) # <<>>
             => \E k \in DOMAIN results : results[k].url = urls[j]

\* three runs, the second failed: count 2, the mean of 90 and 71 is 81
C3_Witness ==
    /\ Len(invocations) >= Runs
    /\ invocations[1].result # NULL
    /\ invocations[2].result = NULL
    /\ invocations[3].result # NULL
    /\ results # <<>>
    /\ results[1].runs = 2
    /\ results[1].rawResults = <<invocations[1].result, invocations[3].result>>
    /\ invocations[1].result.performance = 90
    /\ invocations[3].result.performance = 71
    /\ results[1].performance = 81

\* C4: a URL all of whose runs failed leaves the records under its key in
\* baseline/ and latest/ as they were, and no report is rendered for it.
C4_FailedUrlLeavesRecords ==
    pc = "exited" =>
        \A j \in DOMAIN urls :
            Sampled(j) /\ SuccessesOf(invocations, urls[j]) = <<>> =>
                /\ FileOf(baselineDir, urlToFilename(urls[j]))
                      = FileOf(dirs0.baseline, urlToFilename(urls[j]))
                /\ FileOf(latestDir, urlToFilename(urls[j]))
                      = FileOf(dirs0.latest, urlToFilename(urls[j]))
                /\ ReportName(urls[j]) \notin DOMAIN reportsDir
                /\ \A k \in DOMAIN rendered : rendered[k].current.url # urls[j]

\* C5: whatever Scorer runs fail, every URL is sampled and every URL with a
\* successful run ends the process with its snapshot in the mode's slot.
C5_EveryUrlSampledAndSaved ==
    pc = "exited" /\ urls # <<>> =>
        \A j \in DOMAIN urls :
            /\ AttemptsOf(invocations, urls[j]) = Runs
            /\ SuccessesOf(invocations, urls[j]) # <<>> =>
                  \E k \in DOMAIN results :
                      /\ results[k].url = urls[j]
                      /\ FileOf(SlotDir, urlToFilename(urls[j]))
                            = JSONstringify(results[k])

\* C6: the exit code is non-zero exactly when no URL produced a snapshot.
C6_ExitCodeIffNoSnapshot ==
    pc = "exited" => (exitCode # 0 <=> results = <<>>)

\* C8: a baseline-update process writes baseline/ only and renders nothing; a
\* normal process writes latest/ (and reports) only; what a write stores is
\* in the directory the mode selects, under the URL's key, until a later
\* write goes to that key.
C8_ModeSelectsSlot ==
    /\ BaselineMode =>
          /\ latestDir = dirs0.latest
          /\ reportsDir = EmptyDir
          /\ rendered = <<>>
    /\ ~BaselineMode => baselineDir = dirs0.baseline
    /\ \A j \in DOMAIN writes :
          writes[j].file = "snapshot" /\ ~writes[j].threw =>
              \A name \in {urlToFilename(writes[j].url)} :
                  (\A i \in (j + 1)..Len(writes) :
                      writes[i].file = "snapshot" => urlToFilename(writes[i].url) # name)
                  => \E k \in DOMAIN results :
                        /\ results[k].url = writes[j].url
                        /\ FileOf(SlotDir, name) = JSONstringify(results[k])

\* a baseline-update process that saved a snapshot beside older latest records
C8_Witness ==
    /\ pc = "exited"
    /\ exitCode = 0
    /\ BaselineMode
    /\ dirs0.latest = SnapshotDir
    /\ baselineDir # dirs0.baseline
    /\ \E j \in DOMAIN writes : ~writes[j].threw

IsSnapshot(v) == Cats \subseteq DOMAIN v

\* C9: a stored baseline that is corrupt or malformed counts as no baseline:
\* the renderer gets no baseline and no delta.
C9_MalformedBaselineIsNoBaseline ==
    ~BaselineMode =>
        \A k \in DOMAIN rendered :
            LET name == urlToFilename(rendered[k].current.url)
            IN  (/\ name \in DOMAIN baselineDir
                 /\ \/ ~JSONparses(baselineDir[name])
                    \/ ~IsSnapshot(JSONparse(baselineDir[name])))
                => rendered[k].baseline = NULL /\ rendered[k].delta = NULL

\* C10: a write that throws stops only its own URL: every snapshot's write is
\* attempted, and the exit code is non-zero only if every URL failed.
C10_WriteFailureIsPerUrl ==
    pc = "exited" =>
        /\ \A k \in DOMAIN results :
              \E j \in DOMAIN writes :
                  writes[j].file = "snapshot" /\ writes[j].url = results[k].url
        /\ exitCode # 0 =>
              \A i \in DOMAIN urls :
                  \/ SuccessesOf(invocations, urls[i]) = <<>>
                  \/ \E j \in DOMAIN writes : writes[j].url = urls[i] /\ writes[j].threw

Scores(result) == IF result = NULL THEN NULL ELSE [cat \in Cats |-> result[cat]]

RECURSIVE OutcomesOf(_, _)
\* what the Scorer returned for url, run by run, without the capture times
OutcomesOf(invs, url) ==
    IF invs = <<>> THEN <<>>
    ELSE IF Head(invs).url = url
         THEN <<Scores(Head(invs).result)>> \o OutcomesOf(Tail(invs), url)
         ELSE OutcomesOf(Tail(invs), url)

ZeroDelta == [cat \in Cats |-> Num(0)]

\* C7: a baseline-update process, then a normal process for which the Scorer
\* returns what it returned before: the URL's delta is zero in every category
\* and its baseline is the snapshot the first process saved.
C7_BaselineThenNormalIsZeroDelta ==
    (procNo = 2 /\ prev.updateBaseline /\ ~BaselineMode) =>
        \A k \in DOMAIN rendered :
            LET url == rendered[k].current.url
            IN  (/\ OutcomesOf(invocations, url) = OutcomesOf(prev.invocations, url)
                 /\ \E j \in DOMAIN prev.writes :
                       prev.writes[j].url = url /\ ~prev.writes[j].threw)
                => /\ rendered[k].delta = ZeroDelta
                   /\ \E i \in DOMAIN prev.results :
                         /\ prev.results[i].url = url
                         /\ rendered[k].baseline = prev.results[i]

\* C11: urlToFilename gives distinct URLs distinct keys: the URLs of a run have
\* pairwise distinct file names, and the record a saved URL's key holds in the
\* mode's directory is a record of that URL, never of another one.
C11_KeysNeverCollide ==
    /\ \A i, j \in DOMAIN urls :
          urls[i] # urls[j] => urlToFilename(urls[i]) # urlToFilename(urls[j])
    /\ \A j \in DOMAIN writes :
          writes[j].file = "snapshot" /\ ~writes[j].threw =>
              \A text \in {FileOf(SlotDir, urlToFilename(writes[j].url))} :
                  JSONparses(text) /\ JSONparse(text).url = writes[j].url

UrlEquals == UrlFlag \o <<"=">>

\* the URLs the command line names as the single-URL override: the argument
\* after `--url`, or what follows the `=` of `--url=<u>`
OverrideUrls(args) ==
    {args[i + 1] : i \in {k \in 1..(Len(args) - 1) : args[k] = UrlFlag}}
    \cup {SubSeq(args[i], Len(UrlEquals) + 1, Len(args[i])) :
              i \in {k \in 1..Len(args) : startsWith(args[k], UrlEquals)}}

\* C12: with a single-URL override in either form (`--url <u>`, `--url=<u>`)
\* the URL set of the process is exactly <<u>> and the Scorer is invoked for u
\* only.
C12_OverrideReplacesUrlSet ==
    \A u \in OverrideUrls(argv) :
        /\ pc # "start" => urls = <<u>>
        /\ \A k \in DOMAIN invocations : invocations[k].url = u

\* C13: every URL gets exactly Runs Scorer invocations whatever they return,
\* URL after URL in the order of the list, with no retry and no early end, and
\* never more than one child process runs: one runs exactly while the loop
\* awaits it.
C13_ExactlyRunsInSequence ==
    /\ active \in {0, 1}
    /\ active = 1 <=> pc = "exec"
    /\ \A k \in DOMAIN invocations :
          /\ (k - 1) \div Runs + 1 \in DOMAIN urls
          /\ invocations[k].url = urls[(k - 1) \div Runs + 1]
    /\ \A j \in DOMAIN urls :
          Sampled(j) => AttemptsOf(invocations, urls[j]) = Runs
    /\ pc \in {"lighthouse", "exec"} =>
          Len(invocations) = Runs * (urlIdx - 1) + runNo - 1
    /\ pc \in {"collected", "save", "report", "exited"} =>
          Len(invocations) = Runs * Len(urls)

\* two URLs: the first run of the first succeeded, the second failed, every
\* run of the second URL failed, and six invocations were made in all
C13_Witness ==
    /\ pc = "exited"
    /\ Len(urls) = 2
    /\ Len(invocations) = 2 * Runs
    /\ invocations[1].result # NULL
    /\ invocations[2].result = NULL
    /\ \A k \in 4..6 : invocations[k].url = urls[2] /\ invocations[k].result = NULL
    /\ active = 0

\* the snapshots a process saved for url to the baseline (TRUE) or latest slot
SavedBy(isBaseline, ws, rs, url, slot) ==
    {rs[k] : k \in {i \in DOMAIN rs :
                       /\ isBaseline = slot
                       /\ rs[i].url = url
                       /\ \E j \in DOMAIN ws : /\ ws[j].file = "snapshot"
                                                /\ ws[j].url = url
                                                /\ ~ws[j].threw}}

\* the snapshots of the most recent process that saved url to the slot
LastSaved(url, slot) ==
    IF SavedBy(updateBaseline, writes, results, url, slot) # {}
    THEN SavedBy(updateBaseline, writes, results, url, slot)
    ELSE IF prev.ran
         THEN SavedBy(prev.updateBaseline, prev.writes, prev.results, url, slot)
         ELSE {}

\* C14: the record under a URL's key in a slot is exactly the snapshot of the
\* most recent process that saved that URL to that slot, whole, and loading
\* the URL's baseline returns that snapshot unchanged.
C14_SaveOverwritesWhole ==
    \A url \in UrlPool : \A slot \in BOOLEAN :
        \A snapshot \in LastSaved(url, slot) :
            /\ FileOf(IF slot THEN baselineDir ELSE latestDir, urlToFilename(url))
                  = JSONstringify(snapshot)
            /\ slot => loadBaseline(baselineDir, url) = snapshot

\* the Sampler is at work on urls[urlIdx]
Sampling == pc \in {"lighthouse", "exec", "delay", "aggregate"}

\* the steps of one URL in normal mode follow one another: a report is rendered
\* and written only after the URL's snapshot was written to latest/
SaveBeforeReport ==
    /\ \A j \in DOMAIN writes :
          writes[j].file = "report" =>
              \E i \in 1..(j - 1) : /\ writes[i].file = "snapshot"
                                    /\ writes[i].url = writes[j].url
                                    /\ ~writes[i].threw
    /\ \A k \in DOMAIN rendered :
          \E i \in DOMAIN writes : /\ writes[i].file = "snapshot"
                                   /\ writes[i].url = rendered[k].current.url
                                   /\ ~writes[i].threw

\* C15: the pipeline completes URL by URL: while the Sampler is at work on a
\* URL, every earlier URL with a successful run has had its snapshot saved
\* and, in normal mode, its report rendered; and in normal mode a URL's save
\* to latest/ precedes its load, comparison and rendering.
C15_PipelinePerUrl ==
    /\ Sampling =>
          \A j \in 1..(urlIdx - 1) :
              SuccessesOf(invocations, urls[j]) # <<>> =>
                  /\ \E i \in DOMAIN writes : /\ writes[i].file = "snapshot"
                                              /\ writes[i].url = urls[j]
                  /\ ~updateBaseline =>
                        \E k \in DOMAIN rendered : rendered[k].current.url = urls[j]
    /\ SaveBeforeReport

\* the Scorer's name of a category
CategoryId(cat) == IF cat = "bestPractices" THEN "best-practices" ELSE cat

\* the categories object has no such category, or no number or 0 as its score
Scoreless(categories, cat) ==
    \/ CategoryId(cat) \notin DOMAIN categories
    \/ "score" \notin DOMAIN categories[CategoryId(cat)]
    \/ categories[CategoryId(cat)].score \in {NULL, Num(0)}

\* the invocations for url whose output had a categories object
WithCategories(url) ==
    {k \in DOMAIN invocations :
        invocations[k].url = url /\ invocations[k].categories # NULL}

\* C16: an invocation fails exactly when its output has no categories object
\* (process error, no JSON, JSON without categories); with one, it is a
\* sample, with 0 for every category that is missing, null or 0, and the
\* sample is counted in the URL's snapshot and among its raw samples.
C16_ScorelessCategoryCountsAsZero ==
    /\ \A k \in DOMAIN invocations :
          \A inv \in {invocations[k]} :
              /\ inv.result = NULL <=> inv.categories = NULL
              /\ inv.categories # NULL =>
                    \A cat \in Cats :
                        Scoreless(inv.categories, cat) => inv.result[cat] = 0
    /\ \A j \in DOMAIN results :
          /\ results[j].runs = Cardinality(WithCategories(results[j].url))
          /\ \A k \in WithCategories(results[j].url) :
                \E i \in DOMAIN results[j].rawResults :
                    results[j].rawResults[i] = invocations[k].result

\* the first site, three samples: best-practices 0, then no seo category, then
\* best-practices null; the averages are over all three
C16_Witness ==
    /\ results # <<>>
    /\ results[1].runs = Runs
    /\ Len(invocations) >= Runs
    /\ \A k \in 1..Runs : invocations[k].categories # NULL
    /\ invocations[1].categories["best-practices"].score = Num(0)
    /\ "seo" \notin DOMAIN invocations[2].categories
    /\ invocations[3].categories["best-practices"].score = NULL
    /\ results[1].rawResults[2].seo = 0
    /\ results[1].rawResults[3].bestPractices = 0
    /\ results[1].bestPractices = 33
    /\ results[1].seo = 40

====
